---- MODULE Spec2Model ----
(***************************************************************************)
(* Model of the paper-trading ledger of src/trading_simulator.py:          *)
(* TradingSimulator with create_order, _execute_order,                     *)
(* process_pending_orders and cancel_order.                                *)
(*                                                                         *)
(* Numbers.  The program computes with Python floats.  The model computes  *)
(* in exact arithmetic: quantities and prices are integers (units and      *)
(* ticks), and every value obtained by a division (average price, cost     *)
(* basis, invested, pnl) is a reduced fraction [n, d].  Rounding of        *)
(* floats is outside the model.                                            *)
(*                                                                         *)
(* Calls.  Each public method is an operator from the simulator's state   *)
(* and the arguments to the state it leaves, what it returns, the          *)
(* exception that left it (if any) and the _execute_order calls it made;   *)
(* the action of the method writes that state.  A Python exception that    *)
(* leaves a method part-way leaves what the method had already written.    *)
(***************************************************************************)
EXTENDS Integers, Sequences, FiniteSets, TLC

\* ------------------------------------------------------------------ bounds
\* create_order is drawn while the order sequence, with the new order, holds
\* at most MaxOrders orders, an order of another type than Market counted
\* twice, and at most MaxMixedOrders when an order is on another symbol than
\* MainSymbol.
MaxOrders == 4
MaxMixedOrders == 2
MaxPrice == 1
MaxQuantity == 2
InitialBalance == 2

Symbols == {"BTCUSDT", "ETHUSDT"}
MainSymbol == "BTCUSDT"
Prices == 0..MaxPrice
Quantities == 1..MaxQuantity

\* ------------------------------------------------------- enums and None
\* Optional[float] = None for price, stop_price, current_price,
\* executed_price; also the absent 'cancel_reason' key and executed_at.
None == -1
PriceOpt == Prices \cup {None}
TriggerPrices == PriceOpt

MARKET == "market"
LIMIT == "limit"
STOP_LOSS == "stop_loss"
TAKE_PROFIT == "take_profit"
OrderType == {MARKET, LIMIT, STOP_LOSS, TAKE_PROFIT}

BUY == "buy"
SELL == "sell"
OrderSide == {BUY, SELL}

PENDING == "pending"
EXECUTED == "executed"
CANCELLED == "cancelled"
EXPIRED == "expired"
OrderStatus == {PENDING, EXECUTED, CANCELLED, EXPIRED}

\* The value datetime.now().isoformat() writes; the model keeps no clock.
Now == "now"
NoTime == "null"

\* The reasons _execute_order and cancel_order give (the formatted amounts
\* of the message are left out).
NoReason == "absent"
SaldoInsuficiente == "Saldo insuficiente"
PosicaoNaoEncontrada == "Posicao nao encontrada"
QuantidadeInsuficiente == "Quantidade insuficiente"
CanceladaPeloUsuario == "Cancelada pelo usuario"
ExecutadaComSucesso == "Ordem executada com sucesso"

NoError == "none"
ValueError == "ValueError"
ZeroDivisionError == "ZeroDivisionError"
TypeError == "TypeError"

\* ------------------------------------------------- exact arithmetic
Abs(x) == IF x < 0 THEN -x ELSE x

RECURSIVE GCD(_, _)
GCD(a, b) == IF b = 0 THEN a ELSE GCD(b, a % b)

\* The reduced fraction n/d, d # 0.
Rat(n, d) ==
    LET g == GCD(Abs(n), Abs(d))
        s == IF d < 0 THEN -1 ELSE 1
    IN  [n |-> (s * n) \div g, d |-> (s * d) \div g]

RInt(k) == [n |-> k, d |-> 1]
RAdd(a, b) == Rat(a.n * b.d + b.n * a.d, a.d * b.d)
RSub(a, b) == Rat(a.n * b.d - b.n * a.d, a.d * b.d)
RMul(a, b) == Rat(a.n * b.n, a.d * b.d)
\* a / b, b # 0 (the caller models ZeroDivisionError).
RDiv(a, b) == Rat(a.n * b.d, a.d * b.n)
RLe(a, b) == a.n * b.d <= b.n * a.d
RZero == RInt(0)

\* ------------------------------------------------------------------ state
VARIABLES
    initial_balance,  \* self.initial_balance
    balance,          \* self.balance
    positions,        \* self.positions: symbol -> [quantity, avg_price, invested]
    orders,           \* self.orders
    trades,           \* self.trades
    collection,       \* the MongoDB collection: its documents in insertion order
    snapshot,         \* the dict to_dict returned: <<>> or <<dict>>
    twin,             \* the simulator from_dict built from it: <<>> or <<simulator>>
    threads,          \* per thread: where it is in create_order, and its locals
    overlapped,       \* a call has started while another was under way
    session_prices    \* st.session_state.current_prices: symbol -> price

\* The variables of the simulator object, and those of its host.
core == <<initial_balance, balance, positions, orders, trades>>
race == <<threads, overlapped>>
host == <<collection, snapshot, twin, race, session_prices>>
vars == <<core, host>>

EmptyMap == [s \in {} |-> 0]

\* The TradingSimulator object.
Sim == [initial_balance |-> initial_balance, balance |-> balance,
        positions |-> positions, orders |-> orders, trades |-> trades]

\* The part of the object that _execute_order reads and writes.
\* A ledger whose history keeps only the latest trade.
LedgerLatestTrade(b, p, t) ==
    [balance |-> b, positions |-> p,
     trades |-> IF Len(t) > 1 THEN <<t[Len(t)]>> ELSE t]

Ledger(b, p, t) == [balance |-> b, positions |-> p, trades |-> t]
LedgerOf(sim) == Ledger(sim.balance, sim.positions, sim.trades)
WithLedger(sim, led) ==
    [sim EXCEPT !.balance = led.balance, !.positions = led.positions,
                !.trades = led.trades]

Del(f, k) == [x \in DOMAIN f \ {k} |-> f[x]]
Put(f, k, v) == [x \in DOMAIN f \cup {k} |-> IF x = k THEN v ELSE f[x]]

\* ---------------------------------------------------------- _execute_order
\* A return of (success, message), or an exception, with the ledger and the
\* order as _execute_order left them.
Outcome(led, order, success, message, raised) ==
    [led |-> led, order |-> order, success |-> success, message |-> message,
     raised |-> raised]

\* Lines 235-237.
\* A fill that records no executed price.
FilledWithoutPrice(order, execution_price) ==
    [order EXCEPT !.status = EXECUTED, !.executed_at = Now]

Filled(order, execution_price) ==
    [order EXCEPT !.status = EXECUTED, !.executed_at = Now,
                  !.executed_price = execution_price]

\* A check that refuses a cost equal to the balance.
BalanceNotAbove(order_cost, bal) == order_cost >= bal

\* A Buy that is never refused.
NeverInsufficient(order_cost, bal) == FALSE

\* Line 172.
InsufficientBalance(order_cost, bal) == order_cost > bal

\* Lines 179-184: the position the Buy adds to.
OpenPosition(pos, symbol) ==
    IF symbol \in DOMAIN pos THEN pos
    ELSE Put(pos, symbol, [quantity |-> 0, avg_price |-> RZero, invested |-> RZero])

\* The Buy branch.
ExecuteBuy(led, order, execution_price) ==
    LET symbol == order.symbol
        quantity == order.quantity
        order_cost == quantity * execution_price
    IN  IF InsufficientBalance(order_cost, led.balance)
        THEN Outcome(led, order, FALSE, SaldoInsuficiente, NoError)
        ELSE
        LET bal == led.balance - order_cost
            pos0 == OpenPosition(led.positions, symbol)
            position == pos0[symbol]
            total_invested == RAdd(position.invested, RInt(order_cost))
            total_quantity == position.quantity + quantity
        IN  IF total_quantity = 0
            \* total_invested / total_quantity raises after the balance
            \* and the new position were written.
            THEN Outcome(Ledger(bal, pos0, led.trades), order, FALSE, NoReason,
                         ZeroDivisionError)
            ELSE Outcome(Ledger(bal,
                                Put(pos0, symbol,
                                    [quantity |-> total_quantity,
                                     avg_price |-> RDiv(total_invested, RInt(total_quantity)),
                                     invested |-> total_invested]),
                                led.trades),
                         Filled(order, execution_price), TRUE,
                         ExecutadaComSucesso, NoError)

\* A sale that recomputes the average price from the invested amount it
\* has not reduced yet.
SoldPositionReaveraged(position, quantity, cost_basis) ==
    [position EXCEPT !.quantity = @ - quantity,
                     !.invested = RSub(@, cost_basis),
                     !.avg_price = IF position.quantity = quantity THEN @
                                   ELSE RDiv(position.invested,
                                             RInt(position.quantity - quantity))]

\* A sale that leaves the invested amount as it was.
SoldPositionKeepsInvested(position, quantity, cost_basis) ==
    [position EXCEPT !.quantity = @ - quantity]

\* Lines 213-214: the position after quantity was sold.
SoldPosition(position, quantity, cost_basis) ==
    [position EXCEPT !.quantity = @ - quantity,
                     !.invested = RSub(@, cost_basis)]

\* A sale that keeps the emptied position in the map.
KeepIfZero(pos, symbol, position1) == Put(pos, symbol, position1)

\* Lines 217-218: the map after the sale left position1 for the symbol.
RemoveIfZero(pos, symbol, position1) ==
    IF position1.quantity = 0 THEN Del(pos, symbol) ELSE Put(pos, symbol, position1)

\* A trade that takes its entry price from the map after the position was
\* removed (0 when it is gone).
TradeRecordAfterRemoval(trades_before, order, position, execution_price, pnl, cost_basis) ==
    [id |-> Len(trades_before) + 1,
     symbol |-> order.symbol,
     side |-> order.side,
     quantity |-> order.quantity,
     entry_price |-> IF position.quantity = 0 THEN RZero ELSE position.avg_price,
     exit_price |-> execution_price,
     pnl |-> pnl,
     pnl_percentage |-> RMul(RDiv(pnl, cost_basis), RInt(100)),
     executed_at |-> Now]

\* A trade numbered by the order that closed it.
TradeRecordNumberedByOrder(trades_before, order, position, execution_price, pnl, cost_basis) ==
    [id |-> order.id,
     symbol |-> order.symbol,
     side |-> order.side,
     quantity |-> order.quantity,
     entry_price |-> position.avg_price,
     exit_price |-> execution_price,
     pnl |-> pnl,
     pnl_percentage |-> RMul(RDiv(pnl, cost_basis), RInt(100)),
     executed_at |-> Now]

\* Lines 221-231: position is the dict the sale has updated.
TradeRecord(trades_before, order, position, execution_price, pnl, cost_basis) ==
    [id |-> Len(trades_before) + 1,
     symbol |-> order.symbol,
     side |-> order.side,
     quantity |-> order.quantity,
     entry_price |-> position.avg_price,
     exit_price |-> execution_price,
     pnl |-> pnl,
     pnl_percentage |-> RMul(RDiv(pnl, cost_basis), RInt(100)),
     executed_at |-> Now]

\* The Sell branch.
ExecuteSell(led, order, execution_price) ==
    LET symbol == order.symbol
        quantity == order.quantity
    IN  IF symbol \notin DOMAIN led.positions
        THEN Outcome(led, order, FALSE, PosicaoNaoEncontrada, NoError)
        ELSE
        LET position == led.positions[symbol]
        IN  IF quantity > position.quantity
            THEN Outcome(led, order, FALSE, QuantidadeInsuficiente, NoError)
            ELSE
            LET sale_value == quantity * execution_price
                bal == led.balance + sale_value
                cost_basis == RMul(RInt(quantity), position.avg_price)
                pnl == RSub(RInt(sale_value), cost_basis)
                position1 == SoldPosition(position, quantity, cost_basis)
                pos1 == RemoveIfZero(led.positions, symbol, position1)
            IN  IF cost_basis = RZero
                \* (pnl / cost_basis) * 100 raises after balance and
                \* position were written, before the trade and the order.
                THEN Outcome(Ledger(bal, pos1, led.trades), order, FALSE, NoReason,
                             ZeroDivisionError)
                ELSE Outcome(Ledger(bal, pos1,
                                    Append(led.trades,
                                           TradeRecord(led.trades, order, position1,
                                                       execution_price, pnl, cost_basis))),
                             Filled(order, execution_price), TRUE,
                             ExecutadaComSucesso, NoError)

\* Lines 171 and 195: any side other than "buy" or "sell" falls through to
\* lines 235-237; OrderSide has no other value.
ExecuteOrder(led, order, execution_price) ==
    IF order.side = BUY
    THEN ExecuteBuy(led, order, execution_price)
    ELSE ExecuteSell(led, order, execution_price)

\* One _execute_order call as its caller saw it: the ledger before and
\* after, the outcome, and the order after the caller's own update.
Attempt(led, order, execution_price, r, order_after) ==
    [id |-> order.id, symbol |-> order.symbol, side |-> order.side,
     quantity |-> order.quantity, price |-> execution_price,
     before |-> led, after |-> r.led,
     success |-> r.success, message |-> r.message, raised |-> r.raised,
     order |-> order_after]

\* A cancellation that drops the reason.
CancelWithoutReason(order, message) == [order EXCEPT !.status = CANCELLED]

\* An order closed as Expired instead of Cancelled.
ExpireWith(order, message) ==
    [order EXCEPT !.status = EXPIRED, !.cancel_reason = message]

\* What a caller does with a failed execution (create_order 145-147,
\* process_pending_orders 293-295).
CancelWith(order, message) ==
    [order EXCEPT !.status = CANCELLED, !.cancel_reason = message]

\* ------------------------------------------------------------ create_order
\* The order numbered by the count of Pending orders.
NewOrderNumberedByPending(sim, symbol, order_type, side, quantity, price, stop_price) ==
    [id |-> Cardinality({i \in 1..Len(sim.orders) : sim.orders[i].status = PENDING}) + 1,
     symbol |-> symbol,
     type |-> order_type,
     side |-> side,
     quantity |-> quantity,
     price |-> price,
     stop_price |-> stop_price,
     status |-> PENDING,
     created_at |-> Now,
     executed_at |-> NoTime,
     executed_price |-> None,
     cancel_reason |-> NoReason]

NewOrder(sim, symbol, order_type, side, quantity, price, stop_price) ==
    [id |-> Len(sim.orders) + 1,
     symbol |-> symbol,
     type |-> order_type,
     side |-> side,
     quantity |-> quantity,
     price |-> price,
     stop_price |-> stop_price,
     status |-> PENDING,
     created_at |-> Now,
     executed_at |-> NoTime,
     executed_price |-> None,
     cancel_reason |-> NoReason]

\* What a call leaves: the object, the value returned (create_order: the
\* orders appended, process_pending_orders: the ids of executed_orders,
\* cancel_order: its bool), the exception, the _execute_order calls.
Result(sim, ret, raised, attempts) ==
    [sim |-> sim, ret |-> ret, raised |-> raised, attempts |-> attempts]

\* A create_order that appends the order as _execute_order left it.
MarketDispositionKeepsPending(r) == r.order

\* Lines 145-147: the order a Market create_order appends after
\* _execute_order returned r.
MarketDisposition(r) ==
    IF r.success THEN r.order ELSE CancelWith(r.order, r.message)

create_order(sim, symbol, order_type, side, quantity, price, stop_price, current_price) ==
    LET order == NewOrder(sim, symbol, order_type, side, quantity, price, stop_price)
    IN  IF order_type = MARKET
        THEN IF current_price = None
             THEN Result(sim, <<>>, ValueError, <<>>)
             ELSE LET r == ExecuteOrder(LedgerOf(sim), order, current_price)
                  IN  IF r.raised # NoError
                      THEN Result(WithLedger(sim, r.led), <<>>, r.raised,
                                  <<Attempt(LedgerOf(sim), order, current_price, r, r.order)>>)
                      ELSE LET final == MarketDisposition(r)
                           IN  Result([WithLedger(sim, r.led) EXCEPT
                                          !.orders = Append(@, final)],
                                      <<final>>, NoError,
                                      <<Attempt(LedgerOf(sim), order, current_price, r, final)>>)
        ELSE Result([sim EXCEPT !.orders = Append(@, order)], <<order>>, NoError, <<>>)

\* --------------------------------------------------- process_pending_orders
\* Lines 268-286: "execute", "skip", or the TypeError of comparing a price
\* with None.
Trigger(order, current_price) ==
    IF order.type = LIMIT
    THEN IF order.price = None THEN TypeError
         ELSE IF order.side = BUY /\ current_price <= order.price THEN "execute"
         ELSE IF order.side = SELL /\ current_price >= order.price THEN "execute"
         ELSE "skip"
    ELSE IF order.type = STOP_LOSS
    THEN IF order.stop_price = None THEN TypeError
         ELSE IF current_price <= order.stop_price THEN "execute" ELSE "skip"
    ELSE IF order.type = TAKE_PROFIT
    THEN IF order.stop_price = None THEN TypeError
         ELSE IF current_price >= order.stop_price THEN "execute" ELSE "skip"
    ELSE "skip"

\* Settle with the cancelled order listed among the executed ones.
SettleListsCancelled(st, i, order, current_price, r) ==
    LET final == IF r.success THEN r.order ELSE CancelWith(order, r.message)
    IN  [st EXCEPT !.sim = [WithLedger(@, r.led) EXCEPT !.orders[i] = final],
                   !.ret = Append(@, order.id),
                   !.attempts = Append(@, Attempt(LedgerOf(st.sim), order,
                                                  current_price, r, final))]

\* Lines 288-296 settling the order without keeping the balance, positions
\* and trades its execution left.
SettleOnEntryLedger(st, i, order, current_price, r) ==
    LET final == IF r.success THEN r.order ELSE CancelWith(order, r.message)
    IN  [st EXCEPT !.sim = [@ EXCEPT !.orders[i] = final],
                   !.ret = IF r.success THEN Append(@, r.order.id) ELSE @,
                   !.attempts = Append(@, Attempt(LedgerOf(st.sim), order,
                                                  current_price, r, final))]

\* Lines 288-296 for the order at index i: the running result after
\* _execute_order returned r (no exception).
Settle(st, i, order, current_price, r) ==
    IF r.success
    THEN [st EXCEPT !.sim = [WithLedger(@, r.led) EXCEPT !.orders[i] = r.order],
                    !.ret = Append(@, r.order.id),
                    !.attempts = Append(@, Attempt(LedgerOf(st.sim), order,
                                                   current_price, r, r.order))]
    ELSE [st EXCEPT !.sim = [WithLedger(@, r.led) EXCEPT
                                !.orders[i] = CancelWith(order, r.message)],
                    !.attempts = Append(@, Attempt(LedgerOf(st.sim), order,
                                                   current_price, r,
                                                   CancelWith(order, r.message)))]

\* The loop over self.orders from index i on the running result st.
RECURSIVE ProcessFrom(_, _, _)
ProcessFrom(i, st, current_prices) ==
    IF i > Len(st.sim.orders) THEN st
    ELSE
    LET order == st.sim.orders[i]
    IN  IF order.status # PENDING THEN ProcessFrom(i + 1, st, current_prices)
        ELSE IF order.symbol \notin DOMAIN current_prices
        THEN ProcessFrom(i + 1, st, current_prices)
        ELSE
        LET current_price == current_prices[order.symbol]
            t == Trigger(order, current_price)
        IN  IF t = TypeError THEN [st EXCEPT !.raised = TypeError, !.ret = <<>>]
            ELSE IF t = "skip" THEN ProcessFrom(i + 1, st, current_prices)
            ELSE
            LET r == ExecuteOrder(LedgerOf(st.sim), order, current_price)
            IN  IF r.raised # NoError
                THEN [st EXCEPT !.sim = WithLedger(@, r.led),
                                !.raised = r.raised,
                                !.ret = <<>>,
                                !.attempts = Append(@, Attempt(LedgerOf(st.sim), order,
                                                               current_price, r, r.order))]
                ELSE ProcessFrom(i + 1, Settle(st, i, order, current_price, r),
                                 current_prices)

process_pending_orders(sim, current_prices) ==
    ProcessFrom(1, Result(sim, <<>>, NoError, <<>>), current_prices)

\* ------------------------------------------------------------ cancel_order
\* The first order with this id that is Pending, 0 when there is none.
\* The first order with this id whatever its status, 0 when there is none.
FirstWithId(sim, order_id) ==
    LET hits == {i \in 1..Len(sim.orders) : sim.orders[i].id = order_id}
    IN  IF hits = {} THEN 0 ELSE CHOOSE i \in hits : \A j \in hits : i <= j

FirstPending(sim, order_id) ==
    LET hits == {i \in 1..Len(sim.orders) :
                    sim.orders[i].id = order_id /\ sim.orders[i].status = PENDING}
    IN  IF hits = {} THEN 0 ELSE CHOOSE i \in hits : \A j \in hits : i <= j

\* cancel_order reporting success whether or not it found the order.
CancelAlwaysTrue(sim, order_id) ==
    LET i == FirstPending(sim, order_id)
    IN  IF i = 0 THEN Result(sim, TRUE, NoError, <<>>)
        ELSE Result([sim EXCEPT !.orders[i] = CancelWith(@, CanceladaPeloUsuario)],
                    TRUE, NoError, <<>>)

cancel_order(sim, order_id) ==
    LET i == FirstPending(sim, order_id)
    IN  IF i = 0 THEN Result(sim, FALSE, NoError, <<>>)
        ELSE Result([sim EXCEPT !.orders[i] = CancelWith(@, CanceladaPeloUsuario)],
                    TRUE, NoError, <<>>)

\* ------------------------------------------------------------------ queries
\* Lines 74-80: balance plus quantity * quote of the positions among the
\* symbols S that have a quote.
RECURSIVE QuotedValue(_, _, _)
QuotedValue(sim, current_prices, S) ==
    IF S = {} THEN 0
    ELSE LET symbol == CHOOSE s \in S : TRUE
             rest == QuotedValue(sim, current_prices, S \ {symbol})
         IN  IF symbol \in DOMAIN current_prices
             THEN sim.positions[symbol].quantity * current_prices[symbol] + rest
             ELSE rest

\* get_portfolio_value keeping the total it computed as the balance.
PortfolioValueIntoBalance(sim, current_prices) ==
    LET total_value ==
            sim.balance + QuotedValue(sim, current_prices, DOMAIN sim.positions)
    IN  Result([sim EXCEPT !.balance = total_value], total_value, NoError, <<>>)

get_portfolio_value(sim, current_prices) ==
    Result(sim, sim.balance + QuotedValue(sim, current_prices, DOMAIN sim.positions),
           NoError, <<>>)

\* Returns <<pnl_absolute, pnl_percentage>>.
get_pnl(sim, current_prices) ==
    LET current_value == get_portfolio_value(sim, current_prices).ret
        pnl_absolute == current_value - sim.initial_balance
    IN  IF sim.initial_balance = 0
        THEN Result(sim, <<>>, ZeroDivisionError, <<>>)
        ELSE Result(sim,
                    <<pnl_absolute,
                      RMul(Rat(pnl_absolute, sim.initial_balance), RInt(100))>>,
                    NoError, <<>>)

\* sum(t['pnl'] for t in seq)
RECURSIVE SumPnl(_)
SumPnl(seq) ==
    IF seq = <<>> THEN RZero
    ELSE RAdd(SumPnl(SubSeq(seq, 1, Len(seq) - 1)), seq[Len(seq)].pnl)

\* max and min of t['pnl'] over a sequence that is not empty.
MaxPnl(seq) ==
    seq[CHOOSE i \in 1..Len(seq) : \A j \in 1..Len(seq) : RLe(seq[j].pnl, seq[i].pnl)].pnl
MinPnl(seq) ==
    seq[CHOOSE i \in 1..Len(seq) : \A j \in 1..Len(seq) : RLe(seq[i].pnl, seq[j].pnl)].pnl

\* Statistics with a win_rate of 100 when there is no trade.
StatisticsFullRateWhenEmpty(total, winning, losing, win_rate, total_pnl, avg_win, avg_loss, best, worst) ==
    [total_trades |-> total, winning_trades |-> winning, losing_trades |-> losing,
     win_rate |-> IF total = 0 THEN RInt(100) ELSE win_rate,
     total_pnl |-> total_pnl, avg_win |-> avg_win,
     avg_loss |-> avg_loss, best_trade |-> best, worst_trade |-> worst]

\* The dict get_statistics returns.
Statistics(total, winning, losing, win_rate, total_pnl, avg_win, avg_loss, best, worst) ==
    [total_trades |-> total, winning_trades |-> winning, losing_trades |-> losing,
     win_rate |-> win_rate, total_pnl |-> total_pnl, avg_win |-> avg_win,
     avg_loss |-> avg_loss, best_trade |-> best, worst_trade |-> worst]

\* The trades that did not lose.
RECURSIVE NonLosingTrades(_)
NonLosingTrades(seq) ==
    IF seq = <<>> THEN <<>>
    ELSE LET rest == NonLosingTrades(SubSeq(seq, 1, Len(seq) - 1))
             t == seq[Len(seq)]
         IN  IF t.pnl.n >= 0 THEN Append(rest, t) ELSE rest

\* Line 339: [t for t in self.trades if t['pnl'] > 0].
RECURSIVE WinningTrades(_)
WinningTrades(seq) ==
    IF seq = <<>> THEN <<>>
    ELSE LET rest == WinningTrades(SubSeq(seq, 1, Len(seq) - 1))
             t == seq[Len(seq)]
         IN  IF t.pnl.n > 0 THEN Append(rest, t) ELSE rest

\* Line 340: [t for t in self.trades if t['pnl'] < 0].
RECURSIVE LosingTrades(_)
LosingTrades(seq) ==
    IF seq = <<>> THEN <<>>
    ELSE LET rest == LosingTrades(SubSeq(seq, 1, Len(seq) - 1))
             t == seq[Len(seq)]
         IN  IF t.pnl.n < 0 THEN Append(rest, t) ELSE rest

get_statistics(sim) ==
    IF sim.trades = <<>>
    THEN Result(sim, Statistics(0, 0, 0, RZero, RZero, RZero, RZero, RZero, RZero),
                NoError, <<>>)
    ELSE
    LET winning_trades == WinningTrades(sim.trades)
        losing_trades == LosingTrades(sim.trades)
        avg_win == IF winning_trades # <<>>
                   THEN RDiv(SumPnl(winning_trades), RInt(Len(winning_trades)))
                   ELSE RZero
        avg_loss == IF losing_trades # <<>>
                    THEN RDiv(SumPnl(losing_trades), RInt(Len(losing_trades)))
                    ELSE RZero
    IN  Result(sim,
               Statistics(Len(sim.trades), Len(winning_trades), Len(losing_trades),
                          RMul(Rat(Len(winning_trades), Len(sim.trades)), RInt(100)),
                          SumPnl(sim.trades), avg_win, avg_loss,
                          MaxPnl(sim.trades), MinPnl(sim.trades)),
               NoError, <<>>)

\* ------------------------------------------------------------ specification
\* The object after a call.
Becomes(sim) ==
    /\ initial_balance' = sim.initial_balance
    /\ balance' = sim.balance
    /\ positions' = sim.positions
    /\ orders' = sim.orders
    /\ trades' = sim.trades

\* TradingSimulator(initial_balance), lines 57-61.
Constructed(balance0) ==
    [initial_balance |-> balance0, balance |-> balance0, positions |-> EmptyMap,
     orders |-> <<>>, trades |-> <<>>]

\* The threads that call the simulator, and one that is in no call.
Threads == {1, 2}
Idle ==
    [pc |-> "idle", order |-> <<>>, execution_price |-> 0, order_cost |-> 0,
     bal |-> 0, total_invested |-> RZero, total_quantity |-> 0]

HostIdle ==
    /\ collection = <<>>
    /\ snapshot = <<>>
    /\ twin = <<>>
    /\ threads = [t \in Threads |-> Idle]
    /\ overlapped = FALSE
    /\ session_prices = EmptyMap

Init ==
    /\ initial_balance = InitialBalance
    /\ balance = InitialBalance
    /\ positions = EmptyMap
    /\ orders = <<>>
    /\ trades = <<>>
    /\ HostIdle

QuoteMaps == UNION {[S -> Prices] : S \in SUBSET Symbols}

\* The arguments of create_order: price is drawn for Limit orders and
\* stop_price for StopLoss and TakeProfit orders (each may be missing); the
\* other types never read them.
CreateArgs ==
    [symbol : Symbols, order_type : OrderType, side : OrderSide,
     quantity : Quantities, p : TriggerPrices, current_price : PriceOpt]

ArgPrice(a) == IF a.order_type = LIMIT THEN a.p ELSE None
ArgStopPrice(a) == IF a.order_type \in {STOP_LOSS, TAKE_PROFIT} THEN a.p ELSE None

\* create_order taking a missing current_price as 0.
CreatedAtDefaultPrice(sim, a) ==
    create_order(sim, a.symbol, a.order_type, a.side, a.quantity,
                 ArgPrice(a), ArgStopPrice(a),
                 IF a.current_price = None THEN 0 ELSE a.current_price)

\* create_order filling an order of any type at once when it is given a
\* current_price.
CreatedFilledWhenQuoted(sim, a) ==
    create_order(sim, a.symbol,
                 IF a.current_price # None THEN MARKET ELSE a.order_type,
                 a.side, a.quantity, ArgPrice(a), ArgStopPrice(a), a.current_price)

Created(sim, a) ==
    create_order(sim, a.symbol, a.order_type, a.side, a.quantity,
                 ArgPrice(a), ArgStopPrice(a), a.current_price)

Conditional(sim) == {i \in 1..Len(sim.orders) : sim.orders[i].type # MARKET}
Size(sim) == Len(sim.orders) + Cardinality(Conditional(sim))
SymbolsOf(sim) == {sim.orders[i].symbol : i \in 1..Len(sim.orders)}

CreateOrder ==
    \E a \in CreateArgs :
        /\ Size(Sim) + (IF a.order_type = MARKET THEN 1 ELSE 2) <= MaxOrders
        /\ SymbolsOf(Sim) \cup {a.symbol} # {MainSymbol} => Len(orders) < MaxMixedOrders
        /\ Becomes(Created(Sim, a).sim)
        /\ UNCHANGED host

ProcessPendingOrders ==
    \E current_prices \in QuoteMaps :
        /\ Becomes(process_pending_orders(Sim, current_prices).sim)
        /\ UNCHANGED host

\* The ids cancel_order may be called with: those of the orders, and one
\* that no order carries.
OrderIds == 1..(MaxOrders + 1)

CancelOrder ==
    \E order_id \in OrderIds :
        /\ Becomes(cancel_order(Sim, order_id).sim)
        /\ UNCHANGED host

GetPortfolioValue ==
    \E current_prices \in QuoteMaps :
        /\ Becomes(get_portfolio_value(Sim, current_prices).sim)
        /\ UNCHANGED host

GetPnl ==
    \E current_prices \in QuoteMaps :
        /\ Becomes(get_pnl(Sim, current_prices).sim)
        /\ UNCHANGED host

GetStatistics ==
    /\ Becomes(get_statistics(Sim).sim)
    /\ UNCHANGED host

Next ==
    \/ CreateOrder
    \/ ProcessPendingOrders
    \/ CancelOrder
    \/ GetPortfolioValue
    \/ GetPnl
    \/ GetStatistics

Spec == Init /\ [][Next]_vars

\* ------------------------------------------------------------------ calls
\* The calls that can be made in the current state and run _execute_order:
\* create_order of a Market order with a price, and
\* process_pending_orders with any quotes.
MarketArgs ==
    {a \in CreateArgs : a.order_type = MARKET /\ a.p = None /\ a.current_price # None}

\* P holds of the result of every such call.
EveryMarketCall(P(_)) == \A a \in MarketArgs : P(Created(Sim, a))
EveryProcessCall(P(_)) == \A cp \in QuoteMaps : P(process_pending_orders(Sim, cp))
EveryCall(P(_)) == EveryMarketCall(P) /\ EveryProcessCall(P)

\* P holds of every _execute_order call those calls make.
EveryAttempt(P(_, _)) ==
    LET Q(res) == \A k \in 1..Len(res.attempts) : P(res, res.attempts[k])
    IN  EveryCall(Q)

HasOrder(sim, order) == \E i \in 1..Len(sim.orders) : sim.orders[i] = order

\* ------------------------------------------------------------------- C1
\* C1: no order of type Market has status Pending: every Market order in
\* the order sequence is Executed or Cancelled, and so is the order every
\* Market create_order returns.
C1_MarketNeverPending ==
    LET Resolved(res) ==
            \A k \in 1..Len(res.ret) :
                /\ res.ret[k].status \in {EXECUTED, CANCELLED}
                /\ HasOrder(res.sim, res.ret[k])
    IN  /\ \A i \in 1..Len(orders) :
               orders[i].type = MARKET => orders[i].status \in {EXECUTED, CANCELLED}
        /\ EveryMarketCall(Resolved)

\* A Market order that was executed and one that was cancelled, beside an
\* order that is Pending.
C1_Witness ==
    /\ \E i \in 1..Len(orders) : orders[i].type = MARKET /\ orders[i].status = EXECUTED
    /\ \E i \in 1..Len(orders) : orders[i].type = MARKET /\ orders[i].status = CANCELLED
    /\ \E i \in 1..Len(orders) : orders[i].status = PENDING

\* ------------------------------------------------------------------- C2
FailureReasons == {SaldoInsuficiente, PosicaoNaoEncontrada, QuantidadeInsuficiente}

\* C2: an execution attempt that fails (insufficient balance, absent
\* position, insufficient position quantity) leaves balance, positions and
\* trades exactly as they were, and its order is in the order sequence with
\* status Cancelled and the reason recorded; a failing Market create_order
\* leaves the whole ledger as it was.
C2_FailureIsNoOp ==
    LET NoOp(res, a) ==
            (~a.success /\ a.raised = NoError) =>
                /\ a.message \in FailureReasons
                /\ a.after = a.before
                /\ a.order.status = CANCELLED
                /\ a.order.cancel_reason = a.message
                /\ HasOrder(res.sim, a.order)
        Unchanged(res) ==
            (res.ret # <<>> /\ res.ret[1].status = CANCELLED) =>
                LedgerOf(res.sim) = LedgerOf(Sim)
    IN  EveryAttempt(NoOp) /\ EveryMarketCall(Unchanged)

\* Orders cancelled for insufficient balance and for insufficient quantity,
\* with a position open.
C2_Witness ==
    /\ \A m \in {SaldoInsuficiente, QuantidadeInsuficiente} :
           \E i \in 1..Len(orders) :
               orders[i].status = CANCELLED /\ orders[i].cancel_reason = m
    /\ positions # EmptyMap

\* ------------------------------------------------------------------- C3
\* C3: every execution attempt is all-or-nothing: either it changes neither
\* balance, positions nor trades and does not mark the order Executed, or
\* it marks the order Executed, has updated the position and, for a Sell,
\* has appended the Trade; no attempt changes the balance or a position
\* without an Executed order.
C3_AllOrNothing ==
    LET Nothing(a) == a.after = a.before /\ a.order.status # EXECUTED
        All(a) == /\ a.order.status = EXECUTED
                  /\ a.after.positions # a.before.positions
                  /\ a.side = SELL => Len(a.after.trades) = Len(a.before.trades) + 1
        Atomic(res, a) == Nothing(a) \/ All(a)
    IN  EveryAttempt(Atomic)

\* ------------------------------------------------------------------- C4
RECURSIVE SumExecuted(_, _)
\* The sum of quantity * executed_price over the Executed orders of a side.
SumExecuted(os, side) ==
    IF os = <<>> THEN 0
    ELSE (IF Head(os).status = EXECUTED /\ Head(os).side = side
          THEN Head(os).quantity * Head(os).executed_price ELSE 0)
         + SumExecuted(Tail(os), side)

\* C4: the cash balance equals the initial balance minus the sum of
\* quantity * executed_price over the Executed Buy orders plus that sum over
\* the Executed Sell orders; Pending and Cancelled orders contribute nothing.
C4_BalanceFromExecutedOrders ==
    balance = initial_balance - SumExecuted(orders, BUY) + SumExecuted(orders, SELL)

\* ------------------------------------------------------------------- C5
PositionsSound(pos) ==
    \A s \in DOMAIN pos : pos[s].quantity > 0 /\ RLe(RZero, pos[s].invested)

\* C5: every position in the positions map has quantity > 0 and
\* invested >= 0, in every reachable state and in the state every execution
\* attempt leaves (a position sold down to 0 is removed by that attempt).
C5_PositionsPositive ==
    LET Sound(res, a) == PositionsSound(a.after.positions)
    IN  PositionsSound(positions) /\ EveryAttempt(Sound)

\* A position was sold down to 0 and removed: two sales are recorded and no
\* position is left.
C5_Witness == Len(trades) = 2 /\ positions = EmptyMap

\* ------------------------------------------------------------------- C6
\* The position of a symbol, the zero position when the symbol has none.
PositionOr0(pos, symbol) ==
    IF symbol \in DOMAIN pos THEN pos[symbol]
    ELSE [quantity |-> 0, avg_price |-> RZero, invested |-> RZero]

\* C6: a Buy execution at price p for quantity q succeeds iff q*p <= balance;
\* on success the balance decreases by q*p, the symbol has a position whose
\* quantity grew by q and whose invested grew by q*p, with
\* average price = invested / quantity; the other positions and the trades are
\* as before.
C6_BuyExecution ==
    LET Buy(res, a) ==
            a.side = BUY =>
                LET cost == a.quantity * a.price
                    old == PositionOr0(a.before.positions, a.symbol)
                IN  /\ a.raised = NoError
                    /\ a.success <=> cost <= a.before.balance
                    /\ a.success =>
                          /\ a.after.balance = a.before.balance - cost
                          /\ a.symbol \in DOMAIN a.after.positions
                          /\ LET new == a.after.positions[a.symbol]
                             IN  /\ new.quantity = old.quantity + a.quantity
                                 /\ new.invested = RAdd(old.invested, RInt(cost))
                                 /\ RMul(new.avg_price, RInt(new.quantity)) = new.invested
                          /\ \A s \in DOMAIN a.before.positions \ {a.symbol} :
                                 /\ s \in DOMAIN a.after.positions
                                 /\ a.after.positions[s] = a.before.positions[s]
                          /\ DOMAIN a.after.positions = DOMAIN a.before.positions \cup {a.symbol}
                          /\ a.after.trades = a.before.trades
                          /\ a.order.status = EXECUTED
                          /\ a.order.executed_price = a.price
    IN  EveryAttempt(Buy)

\* A Buy spent the whole balance (cost equal to the balance), and a second
\* Buy added to the position at another price, so that the average price is
\* no integer.
C6_Witness ==
    /\ balance = 0
    /\ \E s \in DOMAIN positions : positions[s].avg_price.d # 1
    /\ \E i \in 1..Len(orders) :
           /\ orders[i].side = BUY /\ orders[i].status = EXECUTED
           /\ orders[i].quantity * orders[i].executed_price = initial_balance

\* ------------------------------------------------------------------- C7
\* C7: a Sell execution at price p for quantity q succeeds iff the symbol has
\* a position and q <= its quantity; on success the balance increases by
\* q*p, the position's quantity decreases by q and its invested by
\* q * average price.
C7_SellExecution ==
    LET Sell(res, a) ==
            a.side = SELL =>
                LET held == a.symbol \in DOMAIN a.before.positions
                    old == PositionOr0(a.before.positions, a.symbol)
                    new == PositionOr0(a.after.positions, a.symbol)
                IN  /\ a.success <=> (held /\ a.quantity <= old.quantity)
                    /\ a.success =>
                          /\ a.after.balance = a.before.balance + a.quantity * a.price
                          /\ new.quantity = old.quantity - a.quantity
                          /\ a.symbol \in DOMAIN a.after.positions =>
                                 new.invested =
                                     RSub(old.invested,
                                          RMul(RInt(a.quantity), old.avg_price))
    IN  EveryAttempt(Sell)

\* ------------------------------------------------------------------- C8
\* C8: each successful Sell fill appends exactly one Trade, whose entry_price
\* is the position's average price before the fill (also when the fill
\* removes the position), whose exit_price is the execution price, whose
\* quantity is the sold quantity and whose pnl is
\* quantity * (exit_price - entry_price); no other attempt appends a Trade.
C8_TradePerSell ==
    LET Recorded(res, a) ==
            IF a.side = SELL /\ a.success
            THEN /\ Len(a.after.trades) = Len(a.before.trades) + 1
                 /\ SubSeq(a.after.trades, 1, Len(a.before.trades)) = a.before.trades
                 /\ LET t == a.after.trades[Len(a.after.trades)]
                        avg == a.before.positions[a.symbol].avg_price
                    IN  /\ t.symbol = a.symbol
                        /\ t.entry_price = avg
                        /\ t.exit_price = a.price
                        /\ t.quantity = a.quantity
                        /\ t.pnl = RMul(RInt(t.quantity),
                                        RSub(RInt(t.exit_price), t.entry_price))
            ELSE a.after.trades = a.before.trades
    IN  EveryAttempt(Recorded)

\* Two sales of a position bought at two prices: the first left a remainder,
\* the second removed the position; both trades carry its average price,
\* which is no integer.
C8_Witness ==
    /\ Len(trades) = 2
    /\ trades[1].symbol = trades[2].symbol
    /\ trades[1].symbol \notin DOMAIN positions
    /\ trades[1].entry_price.d # 1
    /\ trades[2].entry_price = trades[1].entry_price

\* ------------------------------------------------------------------- C9
\* C9: a successful Sell of less than the held quantity leaves the
\* position's average price unchanged, and over a whole call the average
\* price of a symbol that keeps its position changes only if the call made a
\* successful Buy of that symbol.
C9_AveragePriceOnlyOnBuy ==
    LET Kept(res, a) ==
            (a.side = SELL /\ a.success /\ a.symbol \in DOMAIN a.after.positions) =>
                a.after.positions[a.symbol].avg_price =
                    a.before.positions[a.symbol].avg_price
        Bought(res, s) ==
            \E k \in 1..Len(res.attempts) :
                /\ res.attempts[k].side = BUY
                /\ res.attempts[k].success
                /\ res.attempts[k].symbol = s
        OnlyOnBuy(res) ==
            \A s \in DOMAIN positions \cap DOMAIN res.sim.positions :
                res.sim.positions[s].avg_price # positions[s].avg_price => Bought(res, s)
    IN  EveryAttempt(Kept) /\ EveryCall(OnlyOnBuy)

\* A position bought at two prices was partly sold: the remainder is open at
\* the average price the trade was entered at, which is no integer.
C9_Witness ==
    \E k \in 1..Len(trades) :
        /\ trades[k].symbol \in DOMAIN positions
        /\ positions[trades[k].symbol].avg_price = trades[k].entry_price
        /\ trades[k].entry_price.d # 1

\* ------------------------------------------------------------------ C10
\* The trigger condition of a Limit order for a quote.
LimitMet(order, quote) ==
    /\ order.price # None
    /\ \/ order.side = BUY /\ quote <= order.price
       \/ order.side = SELL /\ quote >= order.price

\* C10: in process_pending_orders a Pending Limit order whose symbol has a
\* quote is triggered (its execution is attempted) iff side = Buy and
\* quote <= limit price, or side = Sell and quote >= limit price; an order
\* that is not triggered stays Pending and unchanged, and a triggered order
\* is executed at the quoted price, not at the limit price.
C10_LimitTrigger ==
    \A cp \in QuoteMaps :
        LET res == process_pending_orders(Sim, cp)
        IN  \A i \in 1..Len(orders) :
                LET o == orders[i]
                    tried == {k \in 1..Len(res.attempts) : res.attempts[k].id = o.id}
                IN  (o.status = PENDING /\ o.type = LIMIT /\ o.symbol \in DOMAIN cp) =>
                        /\ tried # {} <=> LimitMet(o, cp[o.symbol])
                        /\ tried = {} => res.sim.orders[i] = o
                        /\ \A k \in tried :
                               /\ res.attempts[k].price = cp[o.symbol]
                               /\ res.attempts[k].success =>
                                      /\ res.sim.orders[i].status = EXECUTED
                                      /\ res.sim.orders[i].executed_price = cp[o.symbol]

\* ------------------------------------------------------------------ C11
\* The trigger condition of a StopLoss or TakeProfit order for a quote; the
\* side of the order plays no part in it.
StopMet(order, quote) ==
    /\ order.stop_price # None
    /\ \/ order.type = STOP_LOSS /\ quote <= order.stop_price
       \/ order.type = TAKE_PROFIT /\ quote >= order.stop_price

\* C11: in process_pending_orders a Pending StopLoss order whose symbol has
\* a quote is triggered (its execution is attempted) iff quote <= trigger
\* price, and a Pending TakeProfit order iff quote >= trigger price, whatever
\* the side of the order; an order that is not triggered stays as it was.
C11_StopTrigger ==
    \A cp \in QuoteMaps :
        LET res == process_pending_orders(Sim, cp)
        IN  \A i \in 1..Len(orders) :
                LET o == orders[i]
                    tried == {k \in 1..Len(res.attempts) : res.attempts[k].id = o.id}
                IN  (/\ o.status = PENDING
                     /\ o.type \in {STOP_LOSS, TAKE_PROFIT}
                     /\ o.symbol \in DOMAIN cp) =>
                        /\ tried # {} <=> StopMet(o, cp[o.symbol])
                        /\ tried = {} => res.sim.orders[i] = o

\* ------------------------------------------------------------------ C12
\* The trigger predicate of a Pending order for a quote.
TriggerMet(order, quote) ==
    \/ order.type = LIMIT /\ LimitMet(order, quote)
    \/ order.type \in {STOP_LOSS, TAKE_PROFIT} /\ StopMet(order, quote)

\* C12: every order that is Pending when process_pending_orders is called
\* and whose trigger predicate holds for the supplied quote is no longer
\* Pending afterwards: Executed if its execution succeeded, Cancelled with
\* the failure reason otherwise.
C12_TriggeredNeverPending ==
    \A cp \in QuoteMaps :
        LET res == process_pending_orders(Sim, cp)
        IN  \A i \in 1..Len(orders) :
                LET o == orders[i]
                    after == res.sim.orders[i]
                IN  (/\ o.status = PENDING
                     /\ o.symbol \in DOMAIN cp
                     /\ TriggerMet(o, cp[o.symbol])) =>
                        /\ after.status \in {EXECUTED, CANCELLED}
                        /\ after.status = CANCELLED =>
                               after.cancel_reason \in FailureReasons
                        /\ \A k \in 1..Len(res.attempts) :
                               res.attempts[k].id = o.id =>
                                   (res.attempts[k].success <=> after.status = EXECUTED)

\* ------------------------------------------------------------------ C13
\* C13: process_pending_orders leaves every Pending order whose symbol has
\* no quote Pending and unchanged in every field, and a later call that
\* does quote its symbol evaluates it: that call attempts its execution iff
\* its trigger predicate holds for the quote.
C13_UnquotedStaysPending ==
    \A cp \in QuoteMaps :
        LET res == process_pending_orders(Sim, cp)
        IN  \A i \in 1..Len(orders) :
                LET o == orders[i]
                IN  (o.status = PENDING /\ o.symbol \notin DOMAIN cp) =>
                        /\ res.sim.orders[i] = o
                        /\ \A later \in QuoteMaps :
                               o.symbol \in DOMAIN later =>
                                   LET again == process_pending_orders(res.sim, later)
                                   IN  (\E k \in 1..Len(again.attempts) :
                                            again.attempts[k].id = o.id)
                                       <=> TriggerMet(o, later[o.symbol])

\* ------------------------------------------------------------------ C14
\* C14: a second process_pending_orders call with the same quotes, right
\* after the first, returns an empty list and changes nothing in balance,
\* positions, orders or trades; and no call attempts the execution of an
\* order that is not Pending, so no order is executed twice.
C14_SecondCallIsNoOp ==
    \A cp \in QuoteMaps :
        LET res == process_pending_orders(Sim, cp)
            again == process_pending_orders(res.sim, cp)
        IN  /\ again.raised = NoError
            /\ again.ret = <<>>
            /\ again.sim = res.sim
            /\ \A k \in 1..Len(res.attempts) :
                   \E i \in 1..Len(orders) :
                       /\ orders[i].id = res.attempts[k].id
                       /\ orders[i].status = PENDING

\* ------------------------------------------------------------------ C15
\* The ids, in creation order, of the orders among the first n that were
\* Pending in before and are Executed in after.
RECURSIVE NewlyExecuted(_, _, _)
NewlyExecuted(before, after, n) ==
    IF n = 0 THEN <<>>
    ELSE LET rest == NewlyExecuted(before, after, n - 1)
         IN  IF before[n].status = PENDING /\ after[n].status = EXECUTED
             THEN Append(rest, before[n].id)
             ELSE rest

\* C15: the list process_pending_orders returns holds exactly the orders
\* whose status went from Pending to Executed during the call, in creation
\* order; orders it cancelled and orders still Pending are not in it.
C15_ReturnsExecuted ==
    \A cp \in QuoteMaps :
        LET res == process_pending_orders(Sim, cp)
        IN  res.raised = NoError =>
                res.ret = NewlyExecuted(orders, res.sim.orders, Len(orders))

\* A process_pending_orders call has executed one order and cancelled
\* another: among the conditional orders one is Executed and one is Cancelled
\* for a reason _execute_order gives.
C15_Witness ==
    /\ \E i \in Conditional(Sim) : orders[i].status = EXECUTED
    /\ \E i \in Conditional(Sim) :
           orders[i].status = CANCELLED /\ orders[i].cancel_reason \in FailureReasons

\* ------------------------------------------------------------------ C16
\* C16: cancel_order(id) returns success iff an order with that id exists
\* and is Pending, and then changes only that order, setting its status to
\* Cancelled and its reason; otherwise it returns failure, raises nothing
\* and leaves orders, balance, positions and trades as they were.
C16_CancelOnlyPending ==
    \A order_id \in OrderIds :
        LET res == cancel_order(Sim, order_id)
            hits == {i \in 1..Len(orders) :
                        orders[i].id = order_id /\ orders[i].status = PENDING}
        IN  /\ res.raised = NoError
            /\ res.ret <=> hits # {}
            /\ LedgerOf(res.sim) = LedgerOf(Sim)
            /\ res.sim.initial_balance = initial_balance
            /\ Len(res.sim.orders) = Len(orders)
            /\ \A i \in 1..Len(orders) :
                   IF i \in hits
                   THEN res.sim.orders[i] =
                            [orders[i] EXCEPT !.status = CANCELLED,
                                              !.cancel_reason = CanceladaPeloUsuario]
                   ELSE res.sim.orders[i] = orders[i]

\* An order was cancelled by cancel_order while an Executed order and an
\* open position exist.
C16_Witness ==
    /\ \E i \in 1..Len(orders) : orders[i].cancel_reason = CanceladaPeloUsuario
    /\ \E i \in 1..Len(orders) : orders[i].status = EXECUTED
    /\ positions # EmptyMap

\* ------------------------------------------------------------------ C17
\* C17: after any sequence of calls, rejected create_order calls included,
\* the ids in the order sequence are strictly increasing in creation order
\* (hence pairwise distinct); every call leaves the orders it found in
\* place under their ids, so the sequence only grows and an id never passes
\* to another order.
C17_IdsIncreasing ==
    /\ [](\A i, j \in 1..Len(orders) : i < j => orders[i].id < orders[j].id)
    /\ [][/\ Len(orders') >= Len(orders)
          /\ \A i \in 1..Len(orders) :
                 /\ orders'[i].id = orders[i].id
                 /\ orders'[i].symbol = orders[i].symbol
                 /\ orders'[i].created_at = orders[i].created_at]_vars

\* Three orders are in the sequence after a create_order or
\* process_pending_orders call ended in an error: the balance is above the
\* initial one though no trade was recorded.
C17_Witness ==
    /\ Len(orders) = 3
    /\ trades = <<>>
    /\ balance > initial_balance

\* ------------------------------------------------------------------ C18
\* C18: Executed and Cancelled are absorbing: no create_order,
\* process_pending_orders or cancel_order call changes any field of an
\* order whose status is no longer Pending.
C18_ResolvedIsFinal ==
    [][\A i \in 1..Len(orders) :
           orders[i].status # PENDING =>
               /\ i <= Len(orders')
               /\ orders'[i] = orders[i]]_vars

\* An Executed order and a Cancelled order are followed in the sequence by
\* an order resolved after them.
C18_Witness ==
    /\ Len(orders) = 3
    /\ {orders[1].status, orders[2].status} = {EXECUTED, CANCELLED}
    /\ orders[3].status \in {EXECUTED, CANCELLED}

\* ------------------------------------------------------------------ C19
\* The create_order calls for a Market order without current_price.
UnpricedMarketArgs ==
    {a \in CreateArgs : a.order_type = MARKET /\ a.p = None /\ a.current_price = None}

\* C19: create_order of a Market order without current_price fails with an
\* error and leaves the ledger as it was: no order is appended, balance,
\* positions and trades are untouched, and the next order created gets the
\* id it would have got without the failed call.
C19_MarketNeedsPrice ==
    \A a \in UnpricedMarketArgs :
        LET res == Created(Sim, a)
        IN  /\ res.raised = ValueError
            /\ res.ret = <<>>
            /\ res.attempts = <<>>
            /\ res.sim = Sim
            /\ NewOrder(res.sim, a.symbol, a.order_type, a.side, a.quantity,
                        None, None).id = Len(orders) + 1

\* The rejected call was made on a ledger that holds an open position, a
\* Pending order and a recorded trade.
C19_Witness ==
    /\ positions # EmptyMap
    /\ trades # <<>>
    /\ \E i \in 1..Len(orders) : orders[i].status = PENDING
    /\ \A a \in UnpricedMarketArgs : Created(Sim, a).raised = ValueError

\* ------------------------------------------------------------------ C20
\* The order has the price field its type requires.
HasRequiredPrice(order) ==
    /\ order.type = LIMIT => order.price # None
    /\ order.type \in {STOP_LOSS, TAKE_PROFIT} => order.stop_price # None

\* C20: create_order rejects an order that lacks the price field its type
\* requires before any order is appended, so every Limit order in the order
\* sequence has a limit price and every StopLoss or TakeProfit order a
\* trigger price.
C20_RequiredPriceValidated ==
    /\ \A i \in 1..Len(orders) : HasRequiredPrice(orders[i])
    /\ \A a \in CreateArgs :
           (a.order_type # MARKET /\ a.p = None) =>
               LET res == Created(Sim, a)
               IN  res.raised # NoError /\ res.sim.orders = orders

\* ------------------------------------------------------------------ C21
\* The value of the positions among the symbols S: quantity * quote for a
\* symbol that has a quote, quantity * average entry price for one that
\* has none.
RECURSIVE MarkedValue(_, _)
MarkedValue(current_prices, S) ==
    IF S = {} THEN RZero
    ELSE LET symbol == CHOOSE s \in S : TRUE
             position == positions[symbol]
             value == IF symbol \in DOMAIN current_prices
                      THEN RInt(position.quantity * current_prices[symbol])
                      ELSE RMul(RInt(position.quantity), position.avg_price)
         IN  RAdd(value, MarkedValue(current_prices, S \ {symbol}))

\* C21: get_portfolio_value(current_prices) returns balance plus, for every
\* position, quantity * quote when its symbol has a quote and quantity *
\* average entry price when it has none, and raises nothing.
C21_PortfolioValue ==
    \A current_prices \in QuoteMaps :
        LET res == get_portfolio_value(Sim, current_prices)
        IN  /\ res.raised = NoError
            /\ RInt(res.ret) =
                   RAdd(RInt(balance), MarkedValue(current_prices, DOMAIN positions))

\* ------------------------------------------------------------------ C22
\* C22: on a ledger without trades get_statistics raises nothing and
\* returns a result whose every field is 0, win_rate included.
C22_StatisticsWithoutTrades ==
    trades = <<>> =>
        LET res == get_statistics(Sim)
        IN  /\ res.raised = NoError
            /\ res.ret.total_trades = 0
            /\ res.ret.winning_trades = 0
            /\ res.ret.losing_trades = 0
            /\ \A f \in {"win_rate", "total_pnl", "avg_win", "avg_loss",
                         "best_trade", "worst_trade"} : res.ret[f] = RZero

\* No trade is recorded though a Buy was Executed, an order was refused by
\* _execute_order and an order was cancelled by the user.
C22_Witness ==
    /\ trades = <<>>
    /\ \E i \in 1..Len(orders) : orders[i].status = EXECUTED /\ orders[i].side = BUY
    /\ \E i \in 1..Len(orders) : orders[i].cancel_reason \in FailureReasons
    /\ \E i \in 1..Len(orders) : orders[i].cancel_reason = CanceladaPeloUsuario

\* ------------------------------------------------------------------ C23
\* C23: get_statistics counts a trade as winning iff its pnl > 0 and as
\* losing iff its pnl < 0; a trade with pnl = 0 counts in total_trades only:
\* winning + losing <= total = number of trades, with equality iff no trade
\* has pnl = 0; and win_rate = winning / total * 100.
C23_WinningAndLosing ==
    LET stats == get_statistics(Sim).ret
        Count(Test(_)) == Cardinality({k \in 1..Len(trades) : Test(trades[k])})
        Positive(t) == RLe(RZero, t.pnl) /\ t.pnl # RZero
        Negative(t) == RLe(t.pnl, RZero) /\ t.pnl # RZero
        Zero(t) == t.pnl = RZero
    IN  /\ get_statistics(Sim).raised = NoError
        /\ stats.total_trades = Len(trades)
        /\ stats.winning_trades = Count(Positive)
        /\ stats.losing_trades = Count(Negative)
        /\ stats.winning_trades + stats.losing_trades <= stats.total_trades
        /\ stats.winning_trades + stats.losing_trades = stats.total_trades
               <=> Count(Zero) = 0
        /\ trades # <<>> =>
               RMul(stats.win_rate, RInt(stats.total_trades)) =
                   RInt(100 * stats.winning_trades)

\* The history holds a trade with pnl = 0 and a losing trade.
C23_Witness ==
    /\ \E k \in 1..Len(trades) : trades[k].pnl.n = 0
    /\ \E k \in 1..Len(trades) : trades[k].pnl.n < 0

\* ------------------------------------------------------------------ C24
\* C24: get_statistics, get_portfolio_value and get_pnl leave balance,
\* positions, orders and trades (and the initial balance) as they were, in
\* every reachable state and for every quote mapping.
C24_QueriesChangeNothing ==
    /\ get_statistics(Sim).sim = Sim
    /\ \A current_prices \in QuoteMaps :
           /\ get_portfolio_value(Sim, current_prices).sim = Sim
           /\ get_pnl(Sim, current_prices).sim = Sim

\* The queries are made on a ledger with a recorded trade, where
\* get_portfolio_value and get_pnl return a profit or a loss for some quotes.
C24_Witness ==
    /\ trades # <<>>
    /\ \E current_prices \in QuoteMaps :
           /\ get_portfolio_value(Sim, current_prices).ret # balance
           /\ get_pnl(Sim, current_prices).ret[1] # 0

\* ------------------------------------------------------------------ C28
\* C28: the trade history is append-only: every call leaves each recorded
\* trade at its place in the sequence with all its field values, and the
\* length of the sequence never decreases.
C28_TradesAppendOnly ==
    [][/\ Len(trades') >= Len(trades)
       /\ \A k \in 1..Len(trades) : trades'[k] = trades[k]]_vars

\* A second trade was appended after a first one, at another exit price.
C28_Witness ==
    /\ Len(trades) = 2
    /\ trades[1].id = 1 /\ trades[2].id = 2
    /\ trades[1].exit_price # trades[2].exit_price

\* ------------------------------------------------------------------ C29
\* C29: on a fresh ledger a Market Buy of quantity q at price p1 that
\* succeeds, followed by a Market Sell of q at price p2, ends with balance =
\* initial balance + q * (p2 - p1), no position for the symbol, both orders
\* Executed, and exactly one trade with pnl = q * (p2 - p1) and
\* pnl_percentage = (p2 - p1) / p1 * 100.
C29_BuyThenSell ==
    (orders = <<>> /\ trades = <<>> /\ positions = EmptyMap
        /\ balance = initial_balance) =>
    \A s \in Symbols, q \in Quantities, p1 \in Prices, p2 \in Prices :
        LET bought == create_order(Sim, s, MARKET, BUY, q, None, None, p1)
            sold == create_order(bought.sim, s, MARKET, SELL, q, None, None, p2)
            end == sold.sim
        IN  (bought.raised = NoError /\ bought.ret[1].status = EXECUTED) =>
                /\ sold.raised = NoError
                /\ end.balance = initial_balance + q * (p2 - p1)
                /\ s \notin DOMAIN end.positions
                /\ Len(end.orders) = 2
                /\ end.orders[1].status = EXECUTED
                /\ end.orders[2].status = EXECUTED
                /\ Len(end.trades) = 1
                /\ end.trades[1].pnl = RInt(q * (p2 - p1))
                /\ RMul(end.trades[1].pnl_percentage, RInt(p1)) = RInt((p2 - p1) * 100)

\* ------------------------------------------------------------ persistence
\* Lines 360-369 and 396: the document of a simulator for a user.  pymongo
\* encodes the document when replace_one is called, so the collection holds
\* the values of that moment.
to_dict(sim) ==
    [initial_balance |-> sim.initial_balance, balance |-> sim.balance,
     positions |-> sim.positions, orders |-> sim.orders, trades |-> sim.trades,
     updated_at |-> Now]

Document(data, user_id) ==
    [user_id |-> user_id, initial_balance |-> data.initial_balance,
     balance |-> data.balance, positions |-> data.positions,
     orders |-> data.orders, trades |-> data.trades,
     updated_at |-> data.updated_at]

\* Lines 371-379.
from_dict(data) ==
    [Constructed(data.initial_balance) EXCEPT
        !.balance = data.balance, !.positions = data.positions,
        !.orders = data.orders, !.trades = data.trades]

\* The places of the documents of a user, and the first of them.
Matching(coll, user_id) == {i \in 1..Len(coll) : coll[i].user_id = user_id}
FirstMatching(coll, user_id) ==
    CHOOSE i \in Matching(coll, user_id) : \A j \in Matching(coll, user_id) : i <= j

\* collection.insert_one(document): a save that never replaces.
InsertOne(coll, user_id, document) == Append(coll, document)

\* collection.replace_one({'user_id': user_id}, document, upsert=True).
replace_one(coll, user_id, document) ==
    IF Matching(coll, user_id) = {}
    THEN Append(coll, document)
    ELSE [coll EXCEPT ![FirstMatching(coll, user_id)] = document]

\* collection.find_one({'user_id': user_id}): <<document>>, or <<>> for None.
find_one(coll, user_id) ==
    IF Matching(coll, user_id) = {} THEN <<>>
    ELSE <<coll[FirstMatching(coll, user_id)]>>

\* Lines 394-410; answers is FALSE when the collection raises.
save_simulator_to_mongodb(sim, coll, user_id, answers) ==
    IF answers
    THEN [collection |-> replace_one(coll, user_id, Document(to_dict(sim), user_id)),
          ret |-> TRUE]
    ELSE [collection |-> coll, ret |-> FALSE]

\* Lines 424-437: <<simulator>>, or <<>> for None.
load_simulator_from_mongodb(coll, user_id, answers) ==
    IF ~answers THEN <<>>
    ELSE LET data == find_one(coll, user_id)
         IN  IF data # <<>> THEN <<from_dict(data[1])>> ELSE <<>>

\* --------------------------------------------------- the simulator's host
\* src/pages_trading.py keeps one simulator per session and saves it in the
\* collection.  StoreSpec runs the simulator with Market orders on
\* MainSymbol, at most StoreMaxOrders of them, from either initial balance.
StoreMaxOrders == 1
Users == {"default", "other"}
InitialBalances == {InitialBalance - 1, InitialBalance}

StoreInit ==
    /\ initial_balance \in InitialBalances
    /\ balance = initial_balance
    /\ positions = EmptyMap
    /\ orders = <<>>
    /\ trades = <<>>
    /\ HostIdle

StoreCreateOrder ==
    \E a \in MarketArgs :
        /\ a.symbol = MainSymbol
        /\ Len(orders) < StoreMaxOrders
        /\ Becomes(Created(Sim, a).sim)
        /\ UNCHANGED host

SaveSimulator ==
    \E user_id \in Users, answers \in BOOLEAN :
        /\ collection' =
               save_simulator_to_mongodb(Sim, collection, user_id, answers).collection
        /\ UNCHANGED <<core, snapshot, twin, race, session_prices>>

\* Lines 37-51: the session takes the simulator of the user, or a new one
\* when there is none.
LoadSimulator ==
    \E user_id \in Users, answers \in BOOLEAN, balance0 \in InitialBalances :
        LET simulator == load_simulator_from_mongodb(collection, user_id, answers)
        IN  /\ Becomes(IF simulator = <<>> THEN Constructed(balance0) ELSE simulator[1])
            /\ UNCHANGED host

\* The simulator's default initial balance in place of the one it had.
ResetToDefault(sim, coll, answers) ==
    LET simulator == Constructed(InitialBalance)
    IN  [sim |-> simulator,
         collection |->
             save_simulator_to_mongodb(simulator, coll, "default", answers).collection]

\* src/pages_trading.py lines 93-97.
Reset(sim, coll, answers) ==
    LET simulator == Constructed(sim.initial_balance)
    IN  [sim |-> simulator,
         collection |->
             save_simulator_to_mongodb(simulator, coll, "default", answers).collection]

ResetSimulator ==
    \E answers \in BOOLEAN :
        /\ Becomes(Reset(Sim, collection, answers).sim)
        /\ collection' = Reset(Sim, collection, answers).collection
        /\ UNCHANGED <<snapshot, twin, race, session_prices>>

StoreNext ==
    \/ StoreCreateOrder
    \/ SaveSimulator
    \/ LoadSimulator
    \/ ResetSimulator

StoreSpec == StoreInit /\ [][StoreNext]_vars

\* ------------------------------------------------------------------ C26
\* C26: the collection holds at most one document per user id: a save for
\* a user replaces that user's document, or inserts it when there is none,
\* and leaves the documents of the other users as they were; a load for
\* that user that follows returns the simulator as it was saved; a load for
\* a user without a document returns none.  (A save that the collection
\* refuses returns False and changes no document.)
C26_OneDocumentPerUser ==
    /\ \A user_id \in Users :
           /\ Cardinality(Matching(collection, user_id)) <= 1
           /\ Matching(collection, user_id) = {} =>
                  load_simulator_from_mongodb(collection, user_id, TRUE) = <<>>
    /\ \A user_id \in Users :
           LET saved == save_simulator_to_mongodb(Sim, collection, user_id, TRUE)
               refused == save_simulator_to_mongodb(Sim, collection, user_id, FALSE)
           IN  /\ saved.ret
               /\ Cardinality(Matching(saved.collection, user_id)) = 1
               /\ Len(saved.collection) =
                      Len(collection) + (IF Matching(collection, user_id) = {} THEN 1 ELSE 0)
               /\ \A other \in Users \ {user_id} :
                      /\ Matching(saved.collection, other) = Matching(collection, other)
                      /\ find_one(saved.collection, other) = find_one(collection, other)
               /\ load_simulator_from_mongodb(saved.collection, user_id, TRUE) = <<Sim>>
               /\ ~refused.ret
               /\ refused.collection = collection

\* Both users have a document, with different balances, and the session's
\* simulator has moved on since the default user's document was saved.
C26_Witness ==
    /\ Len(collection) = 2
    /\ collection[1].user_id # collection[2].user_id
    /\ collection[1].balance # collection[2].balance
    /\ load_simulator_from_mongodb(collection, "default", TRUE) # <<Sim>>
    /\ find_one(collection, "default")[1].orders # <<>>

SnapMaxOrders == 2

ToDict ==
    /\ snapshot' = <<[initial_balance |-> initial_balance, balance |-> balance,
                  updated_at |-> Now, of |-> Sim]>>
    /\ UNCHANGED <<core, collection, twin, race, session_prices>>

FromDict ==
    /\ snapshot # <<>>
    /\ twin' = <<[initial_balance |-> snapshot[1].initial_balance,
                  balance |-> snapshot[1].balance,
                  expected |-> snapshot[1].of]>>
    /\ UNCHANGED <<core, collection, snapshot, race, session_prices>>

\* The simulator from_dict built, as its methods see it.
Twin ==
    [initial_balance |-> twin[1].initial_balance, balance |-> twin[1].balance,
     positions |-> positions, orders |-> orders, trades |-> trades]

SnapArgs == {a \in MarketArgs : a.symbol = MainSymbol}

\* create_order on the first simulator.
SnapCreateOrder ==
    \E a \in SnapArgs :
        /\ Len(orders) < SnapMaxOrders
        /\ Becomes(Created(Sim, a).sim)
        /\ UNCHANGED host

\* create_order on the simulator from_dict built.
TwinCreateOrder ==
    \E a \in SnapArgs :
        /\ twin # <<>>
        /\ Len(orders) < SnapMaxOrders
        /\ Len(twin[1].expected.orders) < SnapMaxOrders
        /\ LET after == Created(Twin, a).sim
           IN  /\ positions' = after.positions
               /\ orders' = after.orders
               /\ trades' = after.trades
               /\ twin' = <<[twin[1] EXCEPT
                                !.balance = after.balance,
                                !.expected = Created(@, a).sim]>>
        /\ UNCHANGED <<initial_balance, balance, collection, snapshot, race, session_prices>>

SnapNext ==
    \/ SnapCreateOrder
    \/ ToDict
    \/ FromDict
    \/ TwinCreateOrder

SnapshotSpec == Init /\ [][SnapNext]_vars

\* ------------------------------------------------------------------ C25
\* C25: the simulator restored from the snapshot of a simulator has the
\* initial balance, balance, positions, orders and trades that simulator
\* had when the snapshot was taken, and the calls made on it afterwards
\* leave it as they would leave that simulator, the next order id included.
C25_RestoreEqualsSnapshot ==
    twin # <<>> =>
        /\ Twin = twin[1].expected
        /\ \A a \in SnapArgs :
               Created(Twin, a).ret = Created(twin[1].expected, a).ret

\* ------------------------------------------------- create_order in threads
\* RaceSpec runs create_order for Market Buy orders on MainSymbol in two
\* threads on one simulator, one read or write of the simulator per step:
\* id allocation (line 126), balance check (172), the read and the write of
\* self.balance -= order_cost (176), the opening of the position
\* (179-184), the reads of the position (186-188), its writes (190-192),
\* and the append of the order (149).  What lies between two of them is
\* local to the thread and goes with the step before it.  A call starts
\* while the order sequence with the calls under way holds fewer than
\* RaceMaxOrders orders.
RaceMaxOrders == 2

At(t, pc) == threads[t].pc = pc
Goes(t, locals) == threads' = [threads EXCEPT ![t] = locals]
Active == {t \in Threads : ~At(t, "idle")}

\* Lines 125-137 and 165-168.
Begin(t) ==
    \E quantity \in Quantities, current_price \in Prices :
        /\ At(t, "idle")
        /\ Len(orders) + Cardinality(Active) < RaceMaxOrders
        /\ Goes(t, [Idle EXCEPT
                       !.pc = "check",
                       !.order = NewOrder(Sim, MainSymbol, MARKET, BUY, quantity,
                                          None, None),
                       !.execution_price = current_price,
                       !.order_cost = quantity * current_price])
        /\ overlapped' = (overlapped \/ Active # {})
        /\ UNCHANGED <<core, collection, snapshot, twin, session_prices>>

\* Line 172.
CheckBalance(t) ==
    /\ At(t, "check")
    /\ Goes(t, [threads[t] EXCEPT
                   !.pc = IF InsufficientBalance(threads[t].order_cost, balance)
                          THEN "refused" ELSE "debit"])
    /\ UNCHANGED <<core, collection, snapshot, twin, overlapped, session_prices>>

\* Line 176, the read of self.balance.
LoadBalance(t) ==
    /\ At(t, "debit")
    /\ Goes(t, [threads[t] EXCEPT !.pc = "store", !.bal = balance])
    /\ UNCHANGED <<core, collection, snapshot, twin, overlapped, session_prices>>

\* Line 176, the write of self.balance.
StoreBalance(t) ==
    /\ At(t, "store")
    /\ balance' = threads[t].bal - threads[t].order_cost
    /\ Goes(t, [threads[t] EXCEPT !.pc = "open"])
    /\ UNCHANGED <<initial_balance, positions, orders, trades,
                   collection, snapshot, twin, overlapped, session_prices>>

\* Lines 179-184.
OpenThePosition(t) ==
    /\ At(t, "open")
    /\ positions' = OpenPosition(positions, threads[t].order.symbol)
    /\ Goes(t, [threads[t] EXCEPT !.pc = "read"])
    /\ UNCHANGED <<initial_balance, balance, orders, trades,
                   collection, snapshot, twin, overlapped, session_prices>>

\* Lines 186-188.
ReadPosition(t) ==
    /\ At(t, "read")
    /\ LET position == positions[threads[t].order.symbol]
       IN  Goes(t, [threads[t] EXCEPT
                       !.pc = "write",
                       !.total_invested =
                           RAdd(position.invested, RInt(threads[t].order_cost)),
                       !.total_quantity =
                           position.quantity + threads[t].order.quantity])
    /\ UNCHANGED <<core, collection, snapshot, twin, overlapped, session_prices>>

\* Lines 190-192, and 235-237 on the thread's own order.
WritePosition(t) ==
    /\ At(t, "write")
    /\ positions' =
           Put(positions, threads[t].order.symbol,
               [quantity |-> threads[t].total_quantity,
                avg_price |-> RDiv(threads[t].total_invested,
                                   RInt(threads[t].total_quantity)),
                invested |-> threads[t].total_invested])
    /\ Goes(t, [threads[t] EXCEPT
                   !.pc = "append",
                   !.order = Filled(@, threads[t].execution_price)])
    /\ UNCHANGED <<initial_balance, balance, orders, trades,
                   collection, snapshot, twin, overlapped, session_prices>>

\* Lines 145-147.
Refuse(t) ==
    /\ At(t, "refused")
    /\ Goes(t, [threads[t] EXCEPT
                   !.pc = "append",
                   !.order = CancelWith(@, SaldoInsuficiente)])
    /\ UNCHANGED <<core, collection, snapshot, twin, overlapped, session_prices>>

\* Line 149 and the return.
AppendOrder(t) ==
    /\ At(t, "append")
    /\ orders' = Append(orders, threads[t].order)
    /\ Goes(t, Idle)
    /\ UNCHANGED <<initial_balance, balance, positions, trades,
                   collection, snapshot, twin, overlapped, session_prices>>

RaceNext ==
    \E t \in Threads :
        \/ Begin(t)
        \/ CheckBalance(t)
        \/ LoadBalance(t)
        \/ StoreBalance(t)
        \/ OpenThePosition(t)
        \/ ReadPosition(t)
        \/ WritePosition(t)
        \/ Refuse(t)
        \/ AppendOrder(t)

RaceSpec == Init /\ [][RaceNext]_vars

\* ------------------------------------------------------------------ C30
\* What every serialized execution keeps: a balance that is not negative,
\* pairwise distinct order ids and, between calls, a balance and a position
\* that account for the Executed orders.
SerialStates ==
    /\ balance >= 0
    /\ \A i, j \in 1..Len(orders) : i # j => orders[i].id # orders[j].id
    /\ Active = {} =>
           /\ balance = initial_balance - SumExecuted(orders, BUY)
           /\ RInt(SumExecuted(orders, BUY)) =
                  IF MainSymbol \in DOMAIN positions
                  THEN positions[MainSymbol].invested ELSE RZero

\* C30: calls on one simulator must be serialized.  While no call has
\* started during another (each ran under exclusive access) the simulator
\* is in a state serialized execution keeps; calls that interleave at their
\* reads and writes reach states outside them (the witness).
C30_SerializedIsSafe == ~overlapped => SerialStates

\* Two Buys interleaved: both passed the balance check and the balance is
\* negative, and both orders carry the same id.
C30_Witness ==
    /\ overlapped
    /\ Active = {}
    /\ balance < 0
    /\ Len(orders) = 2
    /\ orders[1].id = orders[2].id
    /\ orders[1].status = EXECUTED /\ orders[2].status = EXECUTED

\* ------------------------------------------------------------------ C31
\* C31: distinct simulators are independent; in particular a call on the
\* simulator restored from a snapshot leaves the balance, positions, orders
\* and trades of the simulator the snapshot was taken from unchanged, and a
\* call on that one leaves the restored simulator unchanged.
C31_RestoredIsIndependent ==
    [][twin # <<>> =>
           /\ twin' # twin => Sim' = Sim
           /\ twin' = twin => Twin' = Twin]_vars

\* ------------------------------------------------------------------ C32
ConditionalArgs == {a \in CreateArgs : a.order_type # MARKET}

\* C32: create_order for a Limit, StopLoss or TakeProfit order returns the
\* order Pending and appended, and leaves balance, positions and trades as
\* they were, whatever the balance, the positions and the current_price
\* passed.
C32_ConditionalOnlyRecorded ==
    \A a \in ConditionalArgs :
        LET res == Created(Sim, a)
        IN  /\ res.raised = NoError
            /\ res.ret # <<>>
            /\ res.ret[1].status = PENDING
            /\ res.sim.orders = Append(orders, res.ret[1])
            /\ LedgerOf(res.sim) = LedgerOf(Sim)
            /\ res.sim.initial_balance = initial_balance

\* A Pending Limit Buy that the balance cannot pay.
C32_Witness ==
    \E i \in 1..Len(orders) :
        /\ orders[i].status = PENDING /\ orders[i].type = LIMIT
        /\ orders[i].side = BUY /\ orders[i].price # None
        /\ orders[i].quantity * orders[i].price > balance

\* ------------------------------------------------------------------ C33
OrderFieldsMatchStatus(order) ==
    /\ order.status = EXECUTED <=>
           (order.executed_price # None /\ order.executed_at # NoTime)
    /\ order.status = EXECUTED <=>
           (order.executed_price # None \/ order.executed_at # NoTime)
    /\ order.status = CANCELLED <=> order.cancel_reason # NoReason

\* C33: an order has an executed price and an execution time exactly when
\* its status is Executed, and a cancellation reason exactly when its status
\* is Cancelled; this holds of every recorded order, of every order a call
\* returns and after calls that raise.
C33_FieldsMatchStatus ==
    /\ \A i \in 1..Len(orders) : OrderFieldsMatchStatus(orders[i])
    /\ \A a \in CreateArgs :
           LET res == Created(Sim, a)
           IN  /\ \A i \in 1..Len(res.sim.orders) :
                      OrderFieldsMatchStatus(res.sim.orders[i])
               /\ res.ret # <<>> => OrderFieldsMatchStatus(res.ret[1])
    /\ \A cp \in QuoteMaps :
           LET res == process_pending_orders(Sim, cp)
           IN  \A i \in 1..Len(res.sim.orders) :
                   OrderFieldsMatchStatus(res.sim.orders[i])
    /\ \A id \in OrderIds :
           LET res == cancel_order(Sim, id)
           IN  \A i \in 1..Len(res.sim.orders) :
                   OrderFieldsMatchStatus(res.sim.orders[i])

\* An Executed order, an order cancelled by a failed execution and an order
\* cancelled by the user.
C33_Witness ==
    /\ \E i \in 1..Len(orders) : orders[i].status = EXECUTED
    /\ \E i \in 1..Len(orders) :
           orders[i].status = CANCELLED /\ orders[i].cancel_reason \in FailureReasons
    /\ \E i \in 1..Len(orders) :
           orders[i].status = CANCELLED /\ orders[i].cancel_reason = CanceladaPeloUsuario

\* ------------------------------------------------------------------ C34
\* The executions of one call form a chain: in creation order, the first on
\* the ledger the call found, each later one on the ledger its predecessor
\* left, and the call leaves the ledger of the last.
Chained(res) ==
    LET n == Len(res.attempts)
    IN  /\ \A k \in 1..n : \A l \in 1..n : k < l => res.attempts[k].id < res.attempts[l].id
        /\ n > 0 => res.attempts[1].before = LedgerOf(Sim)
        /\ \A k \in 1..n : k < n => res.attempts[k + 1].before = res.attempts[k].after
        /\ LedgerOf(res.sim) = IF n = 0 THEN LedgerOf(Sim) ELSE res.attempts[n].after

\* An execution is decided on the ledger it sees.
DecidedOnBefore(a) ==
    /\ a.side = BUY =>
           /\ a.raised = NoError
           /\ a.success <=> a.quantity * a.price <= a.before.balance
           /\ ~a.success => a.message = SaldoInsuficiente
    /\ a.side = SELL =>
           (a.success \/ a.raised # NoError) <=>
               (/\ a.symbol \in DOMAIN a.before.positions
                /\ a.quantity <= a.before.positions[a.symbol].quantity)

\* C34: within one process_pending_orders call, Pending orders are executed
\* in creation order and each execution sees the balance and positions left
\* by the executions before it in the same call.
C34_SequentialWithinCall ==
    \A cp \in QuoteMaps :
        LET res == process_pending_orders(Sim, cp)
        IN  /\ Chained(res)
            /\ \A k \in 1..Len(res.attempts) : DecidedOnBefore(res.attempts[k])

\* A call in which a Buy the balance could pay alone is cancelled because an
\* earlier fill of the same call has used the balance.
C34_Witness ==
    \E cp \in QuoteMaps :
        LET res == process_pending_orders(Sim, cp)
        IN  \E k \in 1..Len(res.attempts) : \E l \in 1..Len(res.attempts) :
                /\ k < l
                /\ res.attempts[k].side = BUY /\ res.attempts[k].success
                /\ res.attempts[l].side = BUY /\ ~res.attempts[l].success
                /\ res.attempts[l].message = SaldoInsuficiente
                /\ res.attempts[l].quantity * res.attempts[l].price <= balance
                /\ res.attempts[l].order.status = CANCELLED

\* ------------------------------------------------------------------ C35
\* C35: with an initial balance >= 0, positive quantities and non-negative
\* prices, the balance is never negative: in every reachable state, after
\* every _execute_order call and after every create_order,
\* process_pending_orders and cancel_order call, calls that raise included.
C35_BalanceNeverNegative ==
    /\ initial_balance >= 0 /\ balance >= 0
    /\ \A a \in CreateArgs : Created(Sim, a).sim.balance >= 0
    /\ \A cp \in QuoteMaps :
           LET res == process_pending_orders(Sim, cp)
           IN  /\ res.sim.balance >= 0
               /\ \A k \in 1..Len(res.attempts) : res.attempts[k].after.balance >= 0
    /\ \A id \in OrderIds : cancel_order(Sim, id).sim.balance >= 0

\* Buys have spent the whole balance and a later Buy was refused.
C35_Witness ==
    /\ balance = 0
    /\ positions # EmptyMap
    /\ \E i \in 1..Len(orders) :
           /\ orders[i].side = BUY /\ orders[i].status = CANCELLED
           /\ orders[i].cancel_reason = SaldoInsuficiente

\* ------------------------------------------------------------------ C36
InvestedIsQuantityTimesAverage(pos) ==
    \A s \in DOMAIN pos :
        pos[s].invested = RMul(RInt(pos[s].quantity), pos[s].avg_price)

\* C36: every position satisfies invested = quantity x average price, in
\* exact arithmetic: in every reachable state and after every
\* _execute_order call.
C36_InvestedIsQuantityTimesAverage ==
    /\ InvestedIsQuantityTimesAverage(positions)
    /\ EveryCall(LAMBDA res : InvestedIsQuantityTimesAverage(res.sim.positions))
    /\ EveryAttempt(LAMBDA res, a : InvestedIsQuantityTimesAverage(a.after.positions))

\* A position that was bought at two prices and then partly sold: its
\* average price is not a whole number.
C36_Witness ==
    \E s \in DOMAIN positions :
        /\ positions[s].avg_price.d # 1
        /\ positions[s].invested = positions[s].avg_price
        /\ \E k \in 1..Len(trades) : trades[k].symbol = s

\* ------------------------------------------------------------------ C37
RECURSIVE SumInvested(_, _)
SumInvested(pos, S) ==
    IF S = {} THEN RZero
    ELSE LET s == CHOOSE x \in S : TRUE
         IN  RAdd(pos[s].invested, SumInvested(pos, S \ {s}))

RealisedIdentity(sim) ==
    RAdd(RInt(sim.balance), SumInvested(sim.positions, DOMAIN sim.positions))
        = RAdd(RInt(sim.initial_balance), SumPnl(sim.trades))

\* C37: balance plus the invested amounts of the open positions equals the
\* initial balance plus the pnl of the recorded trades, in exact arithmetic.
C37_RealisedPnlIdentity == RealisedIdentity(Sim)

\* ------------------------------------------------------------------ C38
ExecutedSells(os) ==
    {i \in 1..Len(os) : os[i].status = EXECUTED /\ os[i].side = SELL}

TradesCountSells(sim) ==
    /\ Len(sim.trades) = Cardinality(ExecutedSells(sim.orders))
    /\ \A k \in 1..Len(sim.trades) : sim.trades[k].id = k

\* What one _execute_order call does to the trades: a Sell that fills
\* appends one trade with the next id and the order's symbol, quantity and
\* execution price; every other call leaves the trades alone.
TradeOfExecution(a) ==
    IF a.side = SELL /\ a.success
    THEN /\ Len(a.after.trades) = Len(a.before.trades) + 1
         /\ SubSeq(a.after.trades, 1, Len(a.before.trades)) = a.before.trades
         /\ LET t == a.after.trades[Len(a.after.trades)]
            IN  /\ t.id = Len(a.before.trades) + 1
                /\ t.symbol = a.symbol
                /\ t.quantity = a.quantity
                /\ t.exit_price = a.price
                /\ a.order.status = EXECUTED
    ELSE /\ a.after.trades = a.before.trades
         /\ a.side = SELL => a.order.status # EXECUTED

\* C38: the number of trades equals the number of Executed Sell orders, a
\* Buy adds no trade, trade ids are 1..n in append order and each Sell
\* execution appends the trade with its symbol, quantity and exit price.
C38_TradesMatchSells ==
    /\ TradesCountSells(Sim)
    /\ EveryCall(LAMBDA res : TradesCountSells(res.sim))
    /\ EveryAttempt(LAMBDA res, a : TradeOfExecution(a))

\* Two Sells filled after a Buy, and a third Sell refused.
C38_Witness ==
    /\ Len(trades) = 2
    /\ Cardinality(ExecutedSells(orders)) = 2
    /\ \E i \in 1..Len(orders) : orders[i].status = EXECUTED /\ orders[i].side = BUY
    /\ \E i \in 1..Len(orders) : orders[i].status = CANCELLED /\ orders[i].side = SELL

\* ------------------------------------------------------------------ C39
NeverExpired(os) == \A i \in 1..Len(os) : os[i].status # EXPIRED

\* The recorded orders os1 follow os0 by the transitions named: recorded
\* orders change status only from Pending to Executed or Cancelled, and an
\* order is recorded Pending, Executed or Cancelled.
OnlyNamedTransitions(os0, os1) ==
    /\ Len(os1) >= Len(os0)
    /\ \A i \in 1..Len(os0) :
           os1[i].status # os0[i].status =>
               os0[i].status = PENDING /\ os1[i].status \in {EXECUTED, CANCELLED}
    /\ \A i \in (Len(os0) + 1)..Len(os1) :
           os1[i].status \in {PENDING, EXECUTED, CANCELLED}

\* C39: no sequence of create_order, process_pending_orders and
\* cancel_order calls records an Expired order; a recorded order changes
\* status only from Pending to Executed or from Pending to Cancelled.
C39_NeverExpired ==
    /\ [](NeverExpired(orders))
    /\ [][OnlyNamedTransitions(orders, orders')]_vars

\* A conditional order that was filled and one the user cancelled.
C39_Witness ==
    /\ \E i \in 1..Len(orders) : orders[i].type # MARKET /\ orders[i].status = EXECUTED
    /\ \E i \in 1..Len(orders) :
           /\ orders[i].type # MARKET /\ orders[i].status = CANCELLED
           /\ orders[i].cancel_reason = CanceladaPeloUsuario

\* ------------------------------------------------------ the trading page
\* src/pages_trading.py: the commands of the page on the session's
\* simulator, the collection and st.session_state.current_prices.  PageSpec
\* runs them on MainSymbol with at most PageMaxOrders orders of quantities
\* below MaxQuantity; the form's number_input fields give positive prices,
\* and quotes are positive.
PageMaxOrders == 2
PagePrices == {p \in Prices : p > 0}
PageQuantities == {q \in Quantities : q < MaxQuantity}
FormArgs ==
    [symbol : {MainSymbol}, order_type : OrderType, side : OrderSide,
     quantity : PageQuantities, p : PagePrices]

Page(sim, coll, prices) == [sim |-> sim, collection |-> coll, prices |-> prices]

\* Lines 285 and 312-350: current_price is current_prices.get(symbol); the
\* save is skipped when create_order raises.
SubmitOrder(sim, coll, prices, a, answers) ==
    LET current_price == IF a.symbol \in DOMAIN prices THEN prices[a.symbol] ELSE None
        res == create_order(sim, a.symbol, a.order_type, a.side, a.quantity,
                            ArgPrice(a), ArgStopPrice(a), current_price)
    IN  IF res.raised # NoError THEN Page(res.sim, coll, prices)
        ELSE Page(res.sim,
                  save_simulator_to_mongodb(res.sim, coll, "default", answers).collection,
                  prices)

\* Lines 69-83, the price was fetched: the save runs only if executed is
\* not empty.
UpdatePrice(sim, coll, prices, symbol, current_price, answers) ==
    LET prices1 == Put(prices, symbol, current_price)
        res == process_pending_orders(sim, prices1)
    IN  IF res.raised = NoError /\ res.ret # <<>>
        THEN Page(res.sim,
                  save_simulator_to_mongodb(res.sim, coll, "default", answers).collection,
                  prices1)
        ELSE Page(res.sim, coll, prices1)

\* Lines 185-226: the ids the selectbox offers, and the Cancelar button.
PendingIds(sim) ==
    {sim.orders[i].id : i \in {j \in 1..Len(sim.orders) : sim.orders[j].status = PENDING}}
CancelClick(sim, coll, prices, order_id) ==
    Page(cancel_order(sim, order_id).sim, coll, prices)

\* Lines 93-97.
ResetClick(sim, coll, prices, answers) ==
    Page(Reset(sim, coll, answers).sim, Reset(sim, coll, answers).collection, prices)

\* Lines 87-91.
SaveClick(sim, coll, prices, answers) ==
    Page(sim, save_simulator_to_mongodb(sim, coll, "default", answers).collection, prices)

\* Lines 35-58 in a new session.
StartSession(coll, balance0, answers) ==
    LET simulator == load_simulator_from_mongodb(coll, "default", answers)
    IN  Page(IF simulator = <<>> THEN Constructed(balance0) ELSE simulator[1],
             coll, EmptyMap)

Shows(page) ==
    /\ Becomes(page.sim)
    /\ collection' = page.collection
    /\ session_prices' = page.prices
    /\ UNCHANGED <<snapshot, twin, race>>

PageSubmitOrder ==
    \E a \in FormArgs, answers \in BOOLEAN :
        /\ Len(orders) < PageMaxOrders
        /\ Shows(SubmitOrder(Sim, collection, session_prices, a, answers))

PageUpdatePrice ==
    \E current_price \in PagePrices, answers \in BOOLEAN :
        Shows(UpdatePrice(Sim, collection, session_prices, MainSymbol,
                          current_price, answers))

PageCancelOrder ==
    \E order_id \in PendingIds(Sim) :
        Shows(CancelClick(Sim, collection, session_prices, order_id))

PageReset ==
    \E answers \in BOOLEAN : Shows(ResetClick(Sim, collection, session_prices, answers))

PageSave ==
    \E answers \in BOOLEAN : Shows(SaveClick(Sim, collection, session_prices, answers))

PageStartSession ==
    \E answers \in BOOLEAN :
        Shows(StartSession(collection, InitialBalance, answers))

PageNext ==
    \/ PageSubmitOrder
    \/ PageUpdatePrice
    \/ PageCancelOrder
    \/ PageReset
    \/ PageSave
    \/ PageStartSession

PageSpec == Init /\ [][PageNext]_vars

\* ------------------------------------------------------------------ C40
Stored(coll) == load_simulator_from_mongodb(coll, "default", TRUE)
StoredIfChanged(page) == page.sim # Sim => Stored(page.collection) = <<page.sim>>

\* C40: after every command of the page that changes the session's
\* simulator (submitting an order, cancelling an order, a price update
\* whose process_pending_orders executes or cancels orders, reset), the
\* simulator stored for the user equals the session's simulator; the
\* collection accepts every save.
C40_StoredAfterEveryCommand ==
    /\ \A a \in FormArgs :
           StoredIfChanged(SubmitOrder(Sim, collection, session_prices, a, TRUE))
    /\ \A order_id \in PendingIds(Sim) :
           StoredIfChanged(CancelClick(Sim, collection, session_prices, order_id))
    /\ \A current_price \in PagePrices :
           StoredIfChanged(UpdatePrice(Sim, collection, session_prices, MainSymbol,
                                       current_price, TRUE))
    /\ StoredIfChanged(ResetClick(Sim, collection, session_prices, TRUE))

====
